---- MODULE Spec2Model ----
(***************************************************************************)
(* Micromobility dashboard (src/app.py).                                   *)
(*                                                                         *)
(* Two state machines over one set of variables:                           *)
(*   Spec     - one call of merge_connected_segments(gdf): the endpoint    *)
(*              columns, the outer loop over gdf.index and the recursive   *)
(*              closure build_super_segment, with an explicit call stack.  *)
(*   DashSpec - the "Apply Filter" flow of the Streamlit script: load,     *)
(*              filter by min_trip_count, plot_linestrings.                *)
(*                                                                         *)
(* Coordinates are integers in units of 10^-4 degree, so that rounding to  *)
(* 3 decimals (round_coords) is a real operation: 10001 is 1.0001.         *)
(* Percentages are integers in units of 10^-3 percent (1 is 0.001).        *)
(* Ratios (percentile, line width) are exact fractions <<num, den>>.       *)
(***************************************************************************)
EXTENDS Integers, Sequences, FiniteSets, TLC

VARIABLES
    \* ---- merge_connected_segments ----
    gdf,                  \* the caller's GeoDataFrame: a sequence of rows (records)
    gdf0,                 \* history: gdf as it was passed in
    pc,                   \* position in merge_connected_segments
    visited,              \* set of visited index labels
    segment_groups,       \* list of finished coordinate lists
    idx,                  \* position of the outer "for idx in gdf.index"
    super_segment_coords, \* the coordinate list being built (current_coords)
    stack,                \* frames of build_super_segment: [segment_idx, next_segments]
    merged_gdf,           \* the returned GeoDataFrame
    visits,               \* history: how often each segment's body (lines 56-62) ran
    steps,                \* history: number of steps taken by the call
    \* ---- dashboard ----
    data,                 \* the rows of the selected quarter's file
    min_trip_count,       \* the sidebar's number input
    filter_applied,       \* st.session_state.filter_applied
    dgdf,                 \* the script's gdf after the filter / inside plot_linestrings
    lines,                \* the PolyLines added to the map
    dpc                   \* position in the script run

mergeVars == <<gdf, gdf0, pc, visited, segment_groups, idx, super_segment_coords,
               stack, merged_gdf, visits, steps>>
dashVars == <<data, min_trip_count, filter_applied, dgdf, lines, dpc>>
vars == <<gdf, gdf0, pc, visited, segment_groups, idx, super_segment_coords,
          stack, merged_gdf, visits, steps,
          data, min_trip_count, filter_applied, dgdf, lines, dpc>>

(***************************************************************************)
(* Bounds of the model.                                                    *)
(***************************************************************************)
MaxSegs == 3
MaxRows == 3

(***************************************************************************)
(* Input geometry.  Three places, (0,0), (1,1) and (2,2); the place (1,1)  *)
(* is also written (1.0001,1.0002), which rounds to it.  A segment starts  *)
(* at a point of FirstPoints, ends at a point of LastPoints and has no or  *)
(* one interior point, (1,0).                                              *)
(***************************************************************************)
FirstPoints == {<<0, 0>>, <<10001, 10002>>, <<20000, 20000>>}
LastPoints == {<<0, 0>>, <<10000, 10000>>, <<20000, 20000>>}
Interiors == {<<>>, << <<10000, 0>> >>}
Segments == {<<f>> \o m \o <<l>> : f \in FirstPoints, m \in Interiors, l \in LastPoints}

Last(s) == s[Len(s)]

(***************************************************************************)
(* round(v, 3) on a value in units of 10^-4: the nearest multiple of 10,   *)
(* a tie going to the even thousandth (Python rounds half to even).        *)
(***************************************************************************)
Round3(v) ==
    LET q == v \div 10
        r == v % 10
    IN  IF r < 5 THEN q * 10
        ELSE IF r > 5 THEN (q + 1) * 10
        ELSE IF q % 2 = 0 THEN q * 10 ELSE (q + 1) * 10

round_coords(coord) == <<Round3(coord[1]), Round3(coord[2])>>

(***************************************************************************)
(* A coordinate of an output list, tagged with the input segment and the   *)
(* position in it that it was copied from.  The tag is history: the        *)
(* program's list holds the pt fields only (Geometry).                     *)
(***************************************************************************)
Coords(g, i) == [k \in 1..Len(g[i].geometry) |->
                    [pt |-> g[i].geometry[k], seg |-> i, pos |-> k]]

Geometry(tagged) == [k \in 1..Len(tagged) |-> tagged[k].pt]

(***************************************************************************)
(* merge_connected_segments(gdf)                                           *)
(***************************************************************************)

\* Lines 46-47: gdf['first_coord'], gdf['last_coord'] are assigned on the
\* caller's frame: every row gains the two fields.
WithEndpointColumns(g) ==
    [i \in 1..Len(g) |->
        [geometry |-> g[i].geometry,
         first_coord |-> round_coords(g[i].geometry[1]),
         last_coord |-> round_coords(Last(g[i].geometry))]]

\* Lines 54 and 65: "segment_idx in visited", "idx not in visited".
IsVisitedNever(v, i) == FALSE

IsVisited(v, i) == i \in v

\* Line 58: list(geometry.coords)[1:].
RestOfCoords(g, i) == Tail(Coords(g, i))

RECURSIVE MatchingFrom(_, _, _)
MatchingFrom(g, coord, i) ==
    IF i > Len(g) THEN <<>>
    ELSE (IF g[i].first_coord = coord THEN <<i>> ELSE <<>>) \o MatchingFrom(g, coord, i + 1)

\* Line 60: gdf[gdf['first_coord'] == gdf.loc[segment_idx, 'last_coord']].index.tolist()
next_segments(g, segment_idx) == MatchingFrom(g, g[segment_idx].last_coord, 1)

Top == stack[Len(stack)]

SetTop(f) == [stack EXCEPT ![Len(stack)] = f]

\* Lines 56-60: the body of build_super_segment up to its for loop, for a
\* segment that is not visited: mark, open the loop over next_segments.
Visit(segment_idx, callers) ==
    /\ visited' = visited \cup {segment_idx}
    /\ visits' = [visits EXCEPT ![segment_idx] = @ + 1]
    /\ stack' = Append(callers, [segment_idx |-> segment_idx,
                                 next_segments |-> next_segments(gdf, segment_idx)])

Init ==
    /\ \E n \in 0..MaxSegs : gdf \in [1..n -> {[geometry |-> s] : s \in Segments}]
    /\ gdf0 = gdf
    /\ pc = "start"
    /\ visited = {}
    /\ segment_groups = <<>>
    /\ idx = 1
    /\ super_segment_coords = <<>>
    /\ stack = <<>>
    /\ merged_gdf = <<>>
    /\ visits = [i \in 1..Len(gdf) |-> 0]
    /\ steps = 0
    /\ data = <<>>
    /\ min_trip_count = 0
    /\ filter_applied = FALSE
    /\ dgdf = <<>>
    /\ lines = <<>>
    /\ dpc = "off"

\* Lines 46-51.
AddEndpointColumns ==
    /\ pc = "start"
    /\ gdf' = WithEndpointColumns(gdf)
    /\ segment_groups' = <<>>
    /\ visited' = {}
    /\ idx' = 1
    /\ pc' = "loop"
    /\ steps' = steps + 1
    /\ UNCHANGED <<gdf0, super_segment_coords, stack, merged_gdf, visits>>
    /\ UNCHANGED dashVars

\* Lines 64-65: an index that is already visited is passed over.
LoopSkip ==
    /\ pc = "loop"
    /\ idx <= Len(gdf)
    /\ IsVisited(visited, idx)
    /\ idx' = idx + 1
    /\ steps' = steps + 1
    /\ UNCHANGED <<gdf, gdf0, pc, visited, segment_groups, super_segment_coords,
                   stack, merged_gdf, visits>>
    /\ UNCHANGED dashVars

\* Lines 64-67 and 53-60: an unvisited index starts a super segment with the
\* full coordinate list of its segment and calls build_super_segment on it,
\* which finds it unvisited and extends the list with its coordinates [1:].
LoopStart ==
    /\ pc = "loop"
    /\ idx <= Len(gdf)
    /\ ~IsVisited(visited, idx)
    /\ super_segment_coords' = Coords(gdf, idx) \o RestOfCoords(gdf, idx)
    /\ Visit(idx, stack)
    /\ pc' = "build"
    /\ steps' = steps + 1
    /\ UNCHANGED <<gdf, gdf0, segment_groups, idx, merged_gdf>>
    /\ UNCHANGED dashVars

\* Lines 61-62 and 54-55: the recursive call on a visited segment returns at once.
CallVisited ==
    /\ pc = "build"
    /\ Top.next_segments # <<>>
    /\ IsVisited(visited, Head(Top.next_segments))
    /\ stack' = SetTop([Top EXCEPT !.next_segments = Tail(@)])
    /\ steps' = steps + 1
    /\ UNCHANGED <<gdf, gdf0, pc, visited, segment_groups, idx, super_segment_coords,
                   merged_gdf, visits>>
    /\ UNCHANGED dashVars

\* Lines 61-62 and 54-60: the recursive call on an unvisited segment.
CallUnvisited ==
    /\ pc = "build"
    /\ Top.next_segments # <<>>
    /\ LET next_idx == Head(Top.next_segments) IN
        /\ ~IsVisited(visited, next_idx)
        /\ super_segment_coords' = super_segment_coords \o RestOfCoords(gdf, next_idx)
        /\ Visit(next_idx, SetTop([Top EXCEPT !.next_segments = Tail(@)]))
    /\ steps' = steps + 1
    /\ UNCHANGED <<gdf, gdf0, pc, segment_groups, idx, merged_gdf>>
    /\ UNCHANGED dashVars

\* End of the for loop of line 61 in a recursive call: return to the caller's loop.
ReturnInner ==
    /\ pc = "build"
    /\ Len(stack) > 1
    /\ Top.next_segments = <<>>
    /\ stack' = SubSeq(stack, 1, Len(stack) - 1)
    /\ steps' = steps + 1
    /\ UNCHANGED <<gdf, gdf0, pc, visited, segment_groups, idx, super_segment_coords,
                   merged_gdf, visits>>
    /\ UNCHANGED dashVars

\* The top-level call returns; line 68 appends the LineString, the loop goes on.
ReturnOuter ==
    /\ pc = "build"
    /\ Len(stack) = 1
    /\ Top.next_segments = <<>>
    /\ stack' = <<>>
    /\ segment_groups' = Append(segment_groups, super_segment_coords)
    /\ idx' = idx + 1
    /\ pc' = "loop"
    /\ steps' = steps + 1
    /\ UNCHANGED <<gdf, gdf0, visited, super_segment_coords, merged_gdf, visits>>
    /\ UNCHANGED dashVars

\* Lines 70-71: the merged frame holds one geometry per group.
Finish ==
    /\ pc = "loop"
    /\ idx > Len(gdf)
    /\ merged_gdf' = [k \in 1..Len(segment_groups) |->
                         [geometry |-> Geometry(segment_groups[k])]]
    /\ pc' = "done"
    /\ steps' = steps + 1
    /\ UNCHANGED <<gdf, gdf0, visited, segment_groups, idx, super_segment_coords,
                   stack, visits>>
    /\ UNCHANGED dashVars

Next ==
    \/ AddEndpointColumns
    \/ LoopSkip
    \/ LoopStart
    \/ CallVisited
    \/ CallUnvisited
    \/ ReturnInner
    \/ ReturnOuter
    \/ Finish

Spec == Init /\ [][Next]_vars

(***************************************************************************)
(* Properties of merge_connected_segments.                                 *)
(***************************************************************************)
NumSegs == Len(gdf0)

FirstRounded(i) == round_coords(gdf0[i].geometry[1])

LastRounded(i) == round_coords(Last(gdf0[i].geometry))

\* The input segments whose coordinates a finished list holds.
SegsOf(group) == {group[k].seg : k \in 1..Len(group)}

\* How often coordinate pos of input segment i occurs in a list.
Occurrences(group, i, pos) ==
    Cardinality({k \in 1..Len(group) : group[k].seg = i /\ group[k].pos = pos})

RECURSIVE SumOccurrences(_, _, _)
SumOccurrences(groups, i, pos) ==
    IF groups = <<>> THEN 0
    ELSE Occurrences(Head(groups), i, pos) + SumOccurrences(Tail(groups), i, pos)

\* The input segments of a list in the order their coordinates were appended.
RECURSIVE SegOrder(_)
SegOrder(group) ==
    IF group = <<>> THEN <<>>
    ELSE LET rest == SegOrder(Tail(group)) IN
         IF rest # <<>> /\ Head(rest) = Head(group).seg THEN rest
         ELSE <<Head(group).seg>> \o rest

\* C1. Partition: when merge has returned, every input segment is held by
\* exactly one super segment, and each of its coordinates after the first was
\* put there exactly once (the first, the join point, at most once).
C1_EachSegmentConsumedExactlyOnce ==
    pc = "done" =>
        \A i \in 1..NumSegs :
            /\ Cardinality({g \in 1..Len(segment_groups) : i \in SegsOf(segment_groups[g])}) = 1
            /\ SumOccurrences(segment_groups, i, 1) <= 1
            /\ \A pos \in 2..Len(gdf0[i].geometry) :
                   SumOccurrences(segment_groups, i, pos) = 1

\* A linear chain in input order: each segment ends, after rounding, where
\* the next one starts.
IsChain ==
    /\ NumSegs >= 2
    /\ \A i \in 1..(NumSegs - 1) : LastRounded(i) = FirstRounded(i + 1)

RECURSIVE ChainPoints(_)
ChainPoints(i) ==
    IF i = 1 THEN gdf0[1].geometry
    ELSE ChainPoints(i - 1) \o Tail(gdf0[i].geometry)

\* C2. Chain correctness: a linear chain in input order merges into exactly
\* one super segment, the first segment's points followed by each later
\* segment's points after its first, no point duplicated.
C2_ChainMergesIntoOnePolyline ==
    (pc = "done" /\ IsChain) =>
        /\ Len(merged_gdf) = 1
        /\ merged_gdf[1].geometry = ChainPoints(NumSegs)

\* C3. Maximality: when merge has returned, no segment of one super segment
\* ends, after rounding, where a segment of another super segment starts.
C3_SuperSegmentsAreMaximal ==
    pc = "done" =>
        \A g, h \in 1..Len(segment_groups) :
            g # h =>
                \A i \in SegsOf(segment_groups[g]), j \in SegsOf(segment_groups[h]) :
                    LastRounded(i) # FirstRounded(j)

\* C4. Chain invariant: in every super segment, each two segments that are
\* consecutive in the order their points were appended join: the earlier one
\* ends, after rounding, where the later one starts.
C4_ConsecutiveSegmentsJoin ==
    pc = "done" =>
        \A g \in 1..Len(segment_groups) :
            LET order == SegOrder(segment_groups[g]) IN
            \A k \in 1..(Len(order) - 1) :
                LastRounded(order[k]) = FirstRounded(order[k + 1])

\* A bound on the steps of one call on n segments: the prologue and the
\* epilogue, n loop iterations, a call and a return per segment, and at most
\* n candidates in each segment's for loop.
StepBound(n) == 2 + 3 * n + n * n

\* C5. Closed-loop termination: the call never gets stuck before it
\* returns and returns within StepBound steps, whatever loops and cycles the
\* input holds; the body of build_super_segment runs at most once per
\* segment; a single self-closing segment yields exactly one super segment.
C5_TerminatesWithoutRevisit ==
    /\ steps <= StepBound(NumSegs)
    /\ pc # "done" => ENABLED Next
    /\ \A i \in 1..NumSegs : visits[i] <= 1
    /\ pc = "done" => \A i \in 1..NumSegs : visits[i] = 1
    /\ (pc = "done" /\ NumSegs = 1 /\ LastRounded(1) = FirstRounded(1)) =>
           Len(merged_gdf) = 1

\* A cycle of two segments and a segment that closes on itself after
\* rounding have been merged, into one super segment each.
C5_Witness_LoopsMerged ==
    /\ pc = "done"
    /\ NumSegs = 3
    /\ LastRounded(1) = FirstRounded(2)
    /\ LastRounded(2) = FirstRounded(1)
    /\ FirstRounded(1) # FirstRounded(2)
    /\ LastRounded(3) = FirstRounded(3)
    /\ gdf0[3].geometry[1] # Last(gdf0[3].geometry)
    /\ Len(merged_gdf) = 2
    /\ \A i \in 1..NumSegs : visits[i] = 1

\* No segment ends, after rounding, where any segment starts.
IsDisconnected ==
    \A i, j \in 1..NumSegs : LastRounded(i) # FirstRounded(j)

\* C6. Idempotence on disconnected input: one super segment per input
\* segment, in input order, each with the point sequence of its source.
C6_DisconnectedInputIsKept ==
    (pc = "done" /\ IsDisconnected) =>
        /\ Len(merged_gdf) = NumSegs
        /\ \A i \in 1..NumSegs : merged_gdf[i].geometry = gdf0[i].geometry

\* C10. Frame: after the call the caller's frame has the same records, the
\* same fields per record and the same point sequences as before it.
C10_InputFrameUnchanged ==
    pc = "done" =>
        /\ Len(gdf) = Len(gdf0)
        /\ \A i \in 1..Len(gdf0) :
               /\ DOMAIN gdf[i] = DOMAIN gdf0[i]
               /\ gdf[i].geometry = gdf0[i].geometry

(***************************************************************************)
(* The dashboard: the "Apply Filter" flow and plot_linestrings.            *)
(*                                                                         *)
(* A row of the file is [label, count, percentage]; NaN stands for a       *)
(* missing value.  The geometry of a row plays no part in the filter, the  *)
(* colours, the percentiles or the widths and is left out.  The file has   *)
(* a 'count' column (line 226 reads it), so the branch of line 143 is not  *)
(* part of this flow.                                                      *)
(***************************************************************************)
NaN == 0 - 1

FillCount == 50

FillPercentage == 1

WidthBase == 6

WidthSpan == 2

CountValues == {NaN, 10, 50, 100}
PercentageValues == {NaN, 1, 500, 2000}
MinTripInputs == {0, 50, 51, 100}

\* np.percentile(gdf['count'], [0, 30, 50, 70, 90]), line 106.
QuantilePositions == <<0, 30, 50, 70, 90>>

Column(rows, name) == [k \in 1..Len(rows) |-> rows[k][name]]

RECURSIVE SelectRows(_, _)
SelectRows(rows, keep) ==
    IF rows = <<>> THEN <<>>
    ELSE (IF keep[1] THEN <<Head(rows)>> ELSE <<>>) \o SelectRows(Tail(rows), Tail(keep))

\* A comparison with a missing value is False (pandas).
GreaterEq(c, m) == c # NaN /\ c >= m

\* Line 226: gdf[gdf['count'] >= min_trip_count].
FilterRows(rows, m) ==
    SelectRows(rows, [k \in 1..Len(rows) |-> GreaterEq(rows[k].count, m)])

RECURSIVE SeqMax(_)
SeqMax(col) ==
    IF Len(col) = 1 THEN col[1]
    ELSE LET m == SeqMax(Tail(col)) IN IF Head(col) > m THEN Head(col) ELSE m

RECURSIVE SeqMin(_)
SeqMin(col) ==
    IF Len(col) = 1 THEN col[1]
    ELSE LET m == SeqMin(Tail(col)) IN IF Head(col) < m THEN Head(col) ELSE m

IsPresent(v) == v # NaN

dropna(col) == SelectSeq(col, IsPresent)

\* Line 208: int(gdf['count'].max()); Series.max() skips missing values.
max_trip_count(rows) == SeqMax(dropna(Column(rows, "count")))

\* Lines 99-100: fillna.
fillna(col, value) == [k \in 1..Len(col) |-> IF col[k] = NaN THEN value ELSE col[k]]

CountLess(col, x) == Cardinality({k \in 1..Len(col) : col[k] < x})

CountLessEq(col, x) == Cardinality({k \in 1..Len(col) : col[k] <= x})

\* scipy.stats.percentileofscore(a, score, kind='mean').
percentileofscore_mean(a, score) ==
    <<(CountLess(a, score) + CountLessEq(a, score)) * 50, Len(a)>>

\* scipy.stats.percentileofscore(a, score) as line 103 calls it: the default
\* kind, 'rank'.  With left = #(a < score) and right = #(a <= score) it is
\* (left + right + (1 if right > left else 0)) * 50 / n.
percentileofscore(a, score) ==
    LET left == CountLess(a, score)
        right == CountLessEq(a, score)
    IN  <<(left + right + (IF right > left THEN 1 ELSE 0)) * 50, Len(a)>>

\* The k-th smallest value of a column, k in 1..Len(col).
OrderStatistic(col, k) ==
    CHOOSE v \in {col[j] : j \in 1..Len(col)} :
        CountLess(col, v) < k /\ k <= CountLessEq(col, v)

\* np.percentile(col, q), linear interpolation between order statistics,
\* times 100: at position q*(n-1)/100 counted from 0.
Percentile100(col, q) ==
    LET n == Len(col)
        at == q * (n - 1)
        lo == (at \div 100) + 1
        hi == IF lo < n THEN lo + 1 ELSE n
    IN  100 * OrderStatistic(col, lo)
            + (at % 100) * (OrderStatistic(col, hi) - OrderStatistic(col, lo))

\* Lines 106-114 and 127: the index of the colour that the StepColormap over
\* the quantiles gives a count (0 is the first colour of color_steps): the
\* first colour up to the first quantile, the last colour from the last
\* quantile on, and between them the colour of the last quantile <= x.
ColorIndex(col, x) ==
    LET q == [k \in 1..Len(QuantilePositions) |-> Percentile100(col, QuantilePositions[k])]
    IN  IF 100 * x <= q[1] THEN 0
        ELSE IF 100 * x >= q[Len(q)] THEN Len(q) - 1
        ELSE Cardinality({k \in 1..Len(q) : q[k] <= 100 * x}) - 1

scale_width_low(value, min_val, max_val) ==
    IF max_val > min_val
    THEN <<WidthBase * (max_val - min_val) + WidthSpan * (value - min_val), max_val - min_val>>
    ELSE <<WidthBase, 1>>

\* Lines 119-121: 6 + 2 * ((value - min_val) / (max_val - min_val) if max_val > min_val else 1).
scale_width(value, min_val, max_val) ==
    IF max_val > min_val
    THEN <<WidthBase * (max_val - min_val) + WidthSpan * (value - min_val), max_val - min_val>>
    ELSE <<WidthBase + WidthSpan * 1, 1>>

\* Lines 97-138 of plot_linestrings: the PolyLines of a non-empty frame.
PlotRows(rows) ==
    LET count == fillna(Column(rows, "count"), FillCount)
        percentage == fillna(Column(rows, "percentage"), FillPercentage)
        min_percentage == SeqMin(percentage)
        max_percentage == SeqMax(percentage)
    IN  [k \in 1..Len(rows) |->
            [label |-> rows[k].label,
             count |-> count[k],
             percentage |-> percentage[k],
             percentile |-> percentileofscore(count, count[k]),
             color |-> ColorIndex(count, count[k]),
             width |-> scale_width(percentage[k], min_percentage, max_percentage)]]

DashInit ==
    /\ \E n \in 1..MaxRows :
         \E counts \in [1..n -> CountValues], percentages \in [1..n -> PercentageValues] :
            data = [k \in 1..n |-> [label |-> k, count |-> counts[k],
                                    percentage |-> percentages[k]]]
    /\ min_trip_count = 0
    /\ filter_applied = FALSE
    /\ dgdf = <<>>
    /\ lines = <<>>
    /\ dpc = "sidebar"
    /\ gdf = <<>>
    /\ gdf0 = <<>>
    /\ pc = "off"
    /\ visited = {}
    /\ segment_groups = <<>>
    /\ idx = 1
    /\ super_segment_coords = <<>>
    /\ stack = <<>>
    /\ merged_gdf = <<>>
    /\ visits = <<>>
    /\ steps = 0

\* Lines 208-217: the number input takes a value between 0 and the largest
\* count of the file.
EnterMinTripCount ==
    /\ dpc = "sidebar"
    /\ dropna(Column(data, "count")) # <<>>
    /\ \E m \in MinTripInputs :
        /\ m <= max_trip_count(data)
        /\ min_trip_count' = m
    /\ dpc' = "button"
    /\ UNCHANGED <<data, filter_applied, dgdf, lines>>
    /\ UNCHANGED mergeVars

\* Lines 223-226: the button is pressed: the file is loaded and filtered.
ApplyFilter ==
    /\ dpc = "button"
    /\ filter_applied' = TRUE
    /\ dgdf' = FilterRows(data, min_trip_count)
    /\ dpc' = "routes"
    /\ UNCHANGED <<data, min_trip_count, lines>>
    /\ UNCHANGED mergeVars

\* Lines 229-237: the button is not pressed: the welcome text is shown.
ShowAbout ==
    /\ dpc = "button"
    /\ ~filter_applied
    /\ dpc' = "about"
    /\ UNCHANGED <<data, min_trip_count, filter_applied, dgdf, lines>>
    /\ UNCHANGED mergeVars

\* Lines 238-241: plot_linestrings.  The function works on the copy that
\* to_crs returns: the script's gdf keeps its values.
PlotLinestrings ==
    /\ dpc = "routes"
    /\ lines' = PlotRows(dgdf)
    /\ dpc' = "shown"
    /\ UNCHANGED <<data, min_trip_count, filter_applied, dgdf>>
    /\ UNCHANGED mergeVars

\* Line 208 on a file without any count: the maximum is NaN, int() raises
\* and the script run ends.
MaxTripCountFails ==
    /\ dpc = "sidebar"
    /\ dropna(Column(data, "count")) = <<>>
    /\ dpc' = "failed"
    /\ UNCHANGED <<data, min_trip_count, filter_applied, dgdf, lines>>
    /\ UNCHANGED mergeVars

DashNext ==
    \/ EnterMinTripCount
    \/ ApplyFilter
    \/ ShowAbout
    \/ PlotLinestrings
    \/ MaxTripCountFails

DashSpec == DashInit /\ [][DashNext]_vars

(***************************************************************************)
(* Properties of the dashboard.                                            *)
(***************************************************************************)
Labels(rows) == {rows[k].label : k \in 1..Len(rows)}

\* The file with every missing count replaced by the fill value.
FilledData ==
    [k \in 1..Len(data) |-> [data[k] EXCEPT !.count = IF @ = NaN THEN FillCount ELSE @]]

\* C7. Missing-value fill: through the filter and plot_linestrings a row
\* without a count fares as a row with count 50: the filter keeps the rows
\* it would keep of the filled file, and the lines drawn are those of the
\* filled file; no line carries a missing count.
C7_MissingCountFaresAsFillValue ==
    /\ filter_applied => Labels(dgdf) = Labels(FilterRows(FilledData, min_trip_count))
    /\ dpc = "shown" =>
         /\ lines = PlotRows(FilterRows(FilledData, min_trip_count))
         /\ \A k \in 1..Len(lines) : lines[k].count # NaN

\* The counts that plot_linestrings ranks: those of the frame, filled.
RankedCounts == fillna(Column(dgdf, "count"), FillCount)

NumLess(x) == Cardinality({k \in 1..Len(RankedCounts) : RankedCounts[k] < x})

NumEqual(x) == Cardinality({k \in 1..Len(RankedCounts) : RankedCounts[k] = x})

\* C8 as stated. Percentile rank: the rank of a line with count x among n
\* counts is 100 * (number of values < x + half the number of values = x) / n.
C8_RankIsMeanTie ==
    dpc = "shown" =>
        \A k \in 1..Len(lines) :
            LET x == lines[k].count
                rank == lines[k].percentile
            IN  /\ rank[2] > 0
                /\ 2 * Len(RankedCounts) * rank[1] = 100 * (2 * NumLess(x) + NumEqual(x)) * rank[2]

\* C8 as amended. Percentile rank: the rank of a line with count x among n
\* counts is 100 * (number of values < x + half of (the number of values = x
\* plus one)) / n, the average of the percentage ranks of the values equal to x.
C8_RankIsAverageRankOfTies ==
    dpc = "shown" =>
        \A k \in 1..Len(lines) :
            LET x == lines[k].count
                rank == lines[k].percentile
            IN  /\ rank[2] > 0
                /\ 2 * Len(RankedCounts) * rank[1]
                       = 100 * (2 * NumLess(x) + NumEqual(x) + 1) * rank[2]

\* Lines with tied counts and lines with different counts have been ranked.
C8_Witness_TiesRanked ==
    /\ dpc = "shown"
    /\ Len(lines) = 3
    /\ lines[1].count = lines[2].count
    /\ lines[1].count < lines[3].count
    /\ lines[1].percentile = <<150, 3>>
    /\ lines[3].percentile = <<300, 3>>

\* The percentages that plot_linestrings scales: those of the frame, filled.
ScaledPercentages == fillna(Column(dgdf, "percentage"), FillPercentage)

WidthMin == WidthBase

WidthMax == WidthBase + WidthSpan

====
